---- MODULE Spec2Model ----
(***************************************************************************)
(* The Guardian (src/TheGuardian/app.py): a Gradio page with three tabs    *)
(* (Upload, Processing, Results), a "Detect Weapons" button carrying three *)
(* independent click listeners (go_processing, _run_detection, go_results) *)
(* and a "New Scan" button carrying two (reset_all, go_upload).            *)
(*                                                                         *)
(* The model is one browser session plus the server.  A click sends one    *)
(* request per listener; the listeners registered with queue=False answer  *)
(* directly, each answer being applied to the page when it arrives; the    *)
(* listener registered with queue=True joins the server's event queue,     *)
(* which runs the calls of one listener one at a time.  The requests of a  *)
(* click travel separately, so their answers may arrive in any order.      *)
(*                                                                         *)
(* Spec follows session 1 through the whole workflow; there the clock is   *)
(* advanced only as far as a sleeping call waits for it.  ServerSpec       *)
(* follows the server: the calls of _run_detection that the other sessions *)
(* send join the same queue and write into the same output directory,      *)
(* while the clock runs freely.                                            *)
(*                                                                         *)
(* Text is modelled by strings.  The em dash of the sentinel row is        *)
(* written "-", and the status icons of MODEL_MODE are left out.           *)
(*                                                                         *)
(* Time is counted in ticks of 0.2 s, the length of one time.sleep(0.2).   *)
(***************************************************************************)
EXTENDS Integers, Sequences, FiniteSets, TLC

VARIABLES
    modelMode,   \* MODEL_MODE, fixed by load_model() at import
    weights,     \* whether weights/best.pt exists on disk now
    now,         \* wall clock, in ticks
    saved,       \* the timestamps Image.save wrote a file under, in call order
    tabs,        \* selected tab of gr.Tabs
    inp,         \* gr.Image input
    prog,        \* gr.Slider "Progress", in hundredths
    out_img,     \* gr.Image "Annotated Output"
    detections,  \* gr.Dataframe rows
    meta,        \* gr.Textbox "Run Details"
    download,    \* gr.File
    page,        \* gr.State("upload")
    pend,        \* requests of the queue=False listeners still in flight
    jobs,        \* event queue of the queue=True listener, oldest first
    afterNew,    \* the session's most recent user action was "New Scan"
    fmtIn,       \* a confidence and its rounding direction, for FmtSpec
    fmtOut,      \* the confidence string made of it
    tblIn,       \* a detector result and its rounding directions, for TableSpec
    tblOut       \* the rows made of it

uiVars == <<tabs, inp, prog, out_img, detections, meta, download, page>>
envVars == <<modelMode, weights, now, saved>>
fmtVars == <<fmtIn, fmtOut, tblIn, tblOut>>
vars == <<modelMode, weights, now, saved, tabs, inp, prog, out_img,
          detections, meta, download, page, pend, jobs, afterNew, fmtIn, fmtOut,
          tblIn, tblOut>>

----------------------------------------------------------------------------
(* Bounds of the model *)

MaxTime == 12        \* the clock stops at this tick
MaxBoxes == 2        \* most boxes the detector reports for one image

(* Program constants *)

TicksPerSecond == 5      \* a tick is 0.2 s
ConcurrencyLimit == 1    \* calls of one queued listener running at once
ConfOne == 10000         \* confidence 1.0, confidences being counted in ten-thousandths

\* a time of so many tenths of a second, in ticks
Ticks(tenths) == (tenths * TicksPerSecond) \div 10

\* the loop without its time.sleep
NoSleep == Ticks(0)

\* time.sleep(0.2), line 69, returns after 0.2 s at the earliest
SleepTicks == Ticks(2)

None == "None"
Images == {"A"}

\* results[0].names, the label table of the loaded model
Names == [c \in {0, 1} |-> IF c = 0 THEN "knife" ELSE "gun"]

\* (class id, confidence) pairs the detector may report for one box
BoxKinds == { <<0, 9100>>, <<1, 7700>>, <<7, 8735>>, <<12, 6480>> }

RECURSIVE SeqsUpTo(_, _)
SeqsUpTo(S, n) ==
    IF n = 0 THEN { <<>> }
    ELSE LET shorter == SeqsUpTo(S, n - 1)
         IN  shorter \cup { Append(s, x) : s \in { t \in shorter : Len(t) = n - 1 }, x \in S }

\* results[0] of model(image): boxes is None, or a sequence of boxes in the
\* model's output order
Result(b) == [none |-> FALSE, boxes |-> b]

NoBoxes == [none |-> TRUE, boxes |-> <<>>]

DetectorResults == {NoBoxes} \cup { Result(b) : b \in SeqsUpTo(BoxKinds, MaxBoxes) }

\* the results the detector gives while the whole workflow is explored: no
\* boxes, an empty list, one box of an unmapped class with a confidence midway
\* between two tenths, and a knife at 0.91 followed by a gun at 0.77
ScanResults ==
    { NoBoxes, Result(<<>>), Result(<< <<7, 8735>> >>),
      Result(<< <<0, 9100>>, <<1, 7700>> >>) }

----------------------------------------------------------------------------
(* Text conversions *)

Digit(d) == <<"0", "1", "2", "3", "4", "5", "6", "7", "8", "9">>[d + 1]

\* str(n) for n >= 0
RECURSIVE Str(_)
Str(n) == IF n < 10 THEN Digit(n) ELSE Str(n \div 10) \o Digit(n % 10)

\* the digits after the first decimal cut off instead of rounded
FormatConfCut(c, roundUp) ==
    LET t == c \div 10
    IN  Str(t \div 10) \o "." \o Digit(t % 10) \o "%"

\* f"{conf*100:.1f}%" for conf = c / ConfOne.  The float is rounded to the
\* nearest tenth of a percent; where c lies midway between two tenths at this
\* resolution the float's lower bits decide, given as roundUp.
FormatConf(c, roundUp) ==
    LET r == c % 10
        t == (c \div 10) + (IF r > 5 \/ (r = 5 /\ roundUp) THEN 1 ELSE 0)
    IN  Str(t \div 10) \o "." \o Digit(t % 10) \o "%"

\* names.get(cls_id), without the default
LabelNoDefault(cls) == IF cls \in DOMAIN Names THEN Names[cls] ELSE None

\* names.get(cls_id, str(cls_id))
Label(cls) == IF cls \in DOMAIN Names THEN Names[cls] ELSE Str(cls)

SentinelRow == <<"None", "-">>

\* without the else branch of line 83
RowsNoSentinel(res, ties) ==
    IF ~res.none /\ Len(res.boxes) > 0
    THEN [k \in 1..Len(res.boxes) |->
            <<Label(res.boxes[k][1]), FormatConf(res.boxes[k][2], ties[k])>>]
    ELSE <<>>

\* rows.insert(0, ...) in place of rows.append(...)
RowsReversed(res, ties) ==
    IF ~res.none /\ Len(res.boxes) > 0
    THEN [k \in 1..Len(res.boxes) |->
            LET b == res.boxes[Len(res.boxes) + 1 - k]
            IN  <<Label(b[1]), FormatConf(b[2], ties[k])>>]
    ELSE <<SentinelRow>>

\* rows, lines 76-84.  res is results[0]: res.none says that res.boxes is None.
Rows(res, ties) ==
    IF ~res.none /\ Len(res.boxes) > 0
    THEN [k \in 1..Len(res.boxes) |->
            <<Label(res.boxes[k][1]), FormatConf(res.boxes[k][2], ties[k])>>]
    ELSE <<SentinelRow>>

\* f"Processed in {elapsed:.2f}s" for elapsed = ticks / TicksPerSecond
FormatElapsed(ticks) ==
    LET h == ticks * (100 \div TicksPerSecond)
    IN  Str(h \div 100) \o "." \o Digit((h \div 10) % 10) \o Digit(h % 10)

LocalMode == "Using local model: weights/best.pt"
DemoMode == "Demo mode: weights/best.pt not found. Falling back to yolov8n.pt"
Privacy == "Privacy: Uploads are processed on demand and not stored permanently."
ValidationMsg == "Please upload an image first."

\* the notice looked up again from weights/best.pt at every scan
MetaReloaded(mode, ticks) ==
    (IF weights THEN LocalMode ELSE DemoMode)
        \o "\n" \o "Processed in " \o FormatElapsed(ticks) \o "s\n" \o Privacy

\* meta, lines 87-91
Meta(mode, ticks) ==
    mode \o "\n" \o "Processed in " \o FormatElapsed(ticks) \o "s\n" \o Privacy

\* int(time.time())
UnixSeconds(t) == t \div TicksPerSecond

\* str(OUTPUTS / f"guardian_result_{int(time.time())}.png")
OutPath(sec) == "outputs/guardian_result_" \o Str(sec) \o ".png"

\* results[0].plot(): the image with its boxes drawn
Plot(image) == image \o "+boxes"

----------------------------------------------------------------------------
(* The event queue and the calls of _run_detection *)

\* two entries of the list exchanged
CheckpointsSwapped == <<15, 55, 35, 75, 90>>

\* progress(p, desc=msg) of the loop, lines 64-70, in hundredths
Checkpoints == <<15, 35, 55, 75, 90>>

\* what a call returns to outputs=[prog, out_img, detections, meta, download]
Ret(p, img, rows, m, d) ==
    [prog |-> p, out_img |-> img, detections |-> rows, meta |-> m, download |-> d]

NoRet == Ret(0, None, <<>>, "", None)

\* a call joining the queue: sess is the session that clicked, image the value
\* of inp sent with the click, gr tells whether the go_results request of the
\* same click is still "pending", was "applied", or was not sent ("none")
NewJob(s, image, g) ==
    [sess |-> s, image |-> image, pc |-> "queued", i |-> 0, start |-> 0,
     wake |-> 0, log |-> <<>>, res |-> [none |-> TRUE, boxes |-> <<>>],
     ret |-> NoRet, gr |-> g, calls |-> <<>>]

InFlight(s) == { k \in 1..Len(jobs) : jobs[k].sess = s }

Running == { k \in 1..Len(jobs) : jobs[k].pc \notin {"queued", "returned", "faulted"} }

\* a click event is not sent again while the listener's last request is pending
\* (trigger_mode "once", the default of .click)
MaySend(s) == InFlight(s) = {}

\* a queue that starts a waiting call whatever is running (concurrency_limit=None)
QueueAdmitsAny(k) ==
    /\ jobs[k].pc = "queued"
    /\ \A j \in 1..(k - 1) : jobs[j].pc # "queued"

\* the queue starts its oldest waiting call when fewer than ConcurrencyLimit
\* calls of the listener are running (queue=True, default concurrency limit)
QueueAdmits(k) ==
    /\ jobs[k].pc = "queued"
    /\ \A j \in 1..(k - 1) : jobs[j].pc # "queued"
    /\ Cardinality(Running) < ConcurrencyLimit

Remove(q, k) == [j \in 1..(Len(q) - 1) |-> IF j < k THEN q[j] ELSE q[j + 1]]

----------------------------------------------------------------------------
(* State after the module is imported and the page is loaded *)

Loaded ==
    /\ weights \in BOOLEAN
    /\ modelMode = (IF weights THEN LocalMode ELSE DemoMode)   \* load_model()
    /\ now = 0
    /\ saved = <<>>
    /\ tabs = "upload"
    /\ inp = None
    /\ prog = 0
    /\ out_img = None
    /\ detections = <<>>
    /\ meta = ""
    /\ download = None
    /\ page = "upload"
    /\ pend = {}
    /\ jobs = <<>>
    /\ afterNew = FALSE

Init ==
    /\ Loaded
    /\ fmtIn = [conf |-> 0, roundUp |-> FALSE]
    /\ fmtOut = ""
    /\ tblIn = [res |-> NoBoxes, ties |-> [k \in 1..MaxBoxes |-> FALSE]]
    /\ tblOut = [done |-> FALSE, rows |-> <<>>]

----------------------------------------------------------------------------
(* What the user does.  Both buttons and the image input sit in the Upload *)
(* tab, so they can be used only while that tab is selected.               *)

\* the user puts an image into inp, or clears it
SetImage(img) ==
    /\ tabs = "upload"
    /\ inp # img
    /\ inp' = img
    /\ afterNew' = FALSE
    /\ UNCHANGED <<envVars, fmtVars, tabs, prog, out_img, detections, meta,
                   download, page, pend, jobs>>

\* the user selects a tab by its header
SelectTab(t) ==
    /\ tabs # t
    /\ tabs' = t
    /\ afterNew' = FALSE
    /\ UNCHANGED <<envVars, fmtVars, inp, prog, out_img, detections, meta,
                   download, page, pend, jobs>>

\* "Detect Weapons": the three listeners of detect_btn.click, lines 152-171.
\* A listener whose earlier request is still in flight sends no second one.
ClickDetect ==
    /\ tabs = "upload"
    /\ pend' = pend \cup {"go_processing", "go_results"}
    /\ jobs' = IF MaySend(1)
               THEN Append(jobs, NewJob(1, inp,
                        IF "go_results" \in pend THEN "none" ELSE "pending"))
               ELSE jobs
    /\ afterNew' = FALSE
    /\ UNCHANGED <<envVars, fmtVars, uiVars>>

\* "New Scan" registered with cancels=[the _run_detection event]
ClickNewCancels ==
    /\ tabs = "upload"
    /\ pend' = pend \cup {"reset_all", "go_upload"}
    /\ afterNew' = TRUE
    /\ jobs' = SelectSeq(jobs, LAMBDA j : j.sess # 1)
    /\ UNCHANGED <<envVars, fmtVars, uiVars>>

\* "New Scan": the two listeners of new_btn.click, lines 173-179
ClickNew ==
    /\ tabs = "upload"
    /\ pend' = pend \cup {"reset_all", "go_upload"}
    /\ afterNew' = TRUE
    /\ UNCHANGED <<envVars, fmtVars, uiVars, jobs>>

\* "Detect Weapons" clicked in another session s of the same server
OtherDetect(s, img) ==
    /\ MaySend(s)
    /\ jobs' = Append(jobs, NewJob(s, img, "none"))
    /\ UNCHANGED <<envVars, fmtVars, uiVars, pend, afterNew>>

----------------------------------------------------------------------------
(* Answers of the queue=False listeners, applied to their outputs *)

\* go_processing that records the stage, outputs=[tabs, prog, page]
go_processingSetsPage ==
    /\ "go_processing" \in pend
    /\ pend' = pend \ {"go_processing"}
    /\ tabs' = "processing"
    /\ page' = "processing"
    /\ prog' = 0
    /\ UNCHANGED <<envVars, fmtVars, inp, out_img, detections, meta, download,
                   jobs, afterNew>>

\* go_processing, lines 143-144, outputs=[tabs, prog]
go_processing ==
    /\ "go_processing" \in pend
    /\ pend' = pend \ {"go_processing"}
    /\ tabs' = "processing"
    /\ prog' = 0
    /\ UNCHANGED <<envVars, fmtVars, inp, out_img, detections, meta, download,
                   page, jobs, afterNew>>

\* go_results, lines 146-147, outputs=tabs
go_results ==
    /\ "go_results" \in pend
    /\ pend' = pend \ {"go_results"}
    /\ tabs' = "results"
    /\ jobs' = [k \in 1..Len(jobs) |->
                  IF jobs[k].gr = "pending" THEN [jobs[k] EXCEPT !.gr = "applied"]
                  ELSE jobs[k]]
    /\ UNCHANGED <<envVars, fmtVars, inp, prog, out_img, detections, meta,
                   download, page, afterNew>>

\* go_upload, lines 149-150, outputs=tabs
go_upload ==
    /\ "go_upload" \in pend
    /\ pend' = pend \ {"go_upload"}
    /\ tabs' = "upload"
    /\ UNCHANGED <<envVars, fmtVars, inp, prog, out_img, detections, meta,
                   download, page, jobs, afterNew>>

\* reset_all with meta left out of its outputs
reset_allKeepsMeta ==
    /\ "reset_all" \in pend
    /\ pend' = pend \ {"reset_all"}
    /\ inp' = None
    /\ out_img' = None
    /\ detections' = <<>>
    /\ download' = None
    /\ prog' = 0
    /\ page' = "upload"
    /\ UNCHANGED <<envVars, fmtVars, tabs, meta, jobs, afterNew>>

\* reset_all, lines 99-100, outputs=[inp, out_img, detections, meta, download, prog, page]
reset_all ==
    /\ "reset_all" \in pend
    /\ pend' = pend \ {"reset_all"}
    /\ inp' = None
    /\ out_img' = None
    /\ detections' = <<>>
    /\ meta' = ""
    /\ download' = None
    /\ prog' = 0
    /\ page' = "upload"
    /\ UNCHANGED <<envVars, fmtVars, tabs, jobs, afterNew>>

----------------------------------------------------------------------------
(* _run_detection, lines 57-97, one queued call at a time *)

Set(k, job) == jobs' = [jobs EXCEPT ![k] = job]

\* progress(0.05) reported before the image is looked at
StartProgressFirst(k) ==
    /\ QueueAdmits(k)
    /\ IF jobs[k].image = None
       THEN Set(k, [jobs[k] EXCEPT !.pc = "returned", !.log = <<5>>,
                                   !.ret = Ret(0, None, <<>>, ValidationMsg, None)])
       ELSE Set(k, [jobs[k] EXCEPT !.pc = "sleep", !.log = <<5>>, !.start = now,
                                   !.i = 1, !.wake = now + SleepTicks])
    /\ UNCHANGED <<envVars, fmtVars, uiVars, pend, afterNew>>

\* lines 57-62: the queue starts the call; without an image it returns at once
Start(k) ==
    /\ QueueAdmits(k)
    /\ IF jobs[k].image = None
       THEN Set(k, [jobs[k] EXCEPT !.pc = "returned",
                                   !.ret = Ret(0, None, <<>>, ValidationMsg, None)])
       ELSE Set(k, [jobs[k] EXCEPT !.pc = "sleep", !.log = <<5>>, !.start = now,
                                   !.i = 1, !.wake = now + SleepTicks])
    /\ UNCHANGED <<envVars, fmtVars, uiVars, pend, afterNew>>

\* lines 64-70: time.sleep(0.2) is over, progress(p, desc=msg), next round
Checkpoint(k) ==
    /\ jobs[k].pc = "sleep"
    /\ now >= jobs[k].wake
    /\ LET j == jobs[k]
           logged == [j EXCEPT !.log = Append(j.log, Checkpoints[j.i])]
       IN  IF j.i < Len(Checkpoints)
           THEN Set(k, [logged EXCEPT !.i = j.i + 1, !.wake = now + SleepTicks])
           ELSE Set(k, [logged EXCEPT !.pc = "infer", !.i = 0, !.wake = 0])
    /\ UNCHANGED <<envVars, fmtVars, uiVars, pend, afterNew>>

\* model(image), the detector's invocation at line 72: the image passed and
\* the progress reported before it
Invoke(job) == [image |-> job.image, after |-> job.log]

\* the detector run once for the boxes and once more for the annotated image
InferTwice(k, res, ties) ==
    /\ jobs[k].pc = "infer"
    /\ Set(k, [jobs[k] EXCEPT
                 !.pc = "save", !.res = res, !.start = 0,
                 !.calls = @ \o <<Invoke(jobs[k]), Invoke(jobs[k])>>,
                 !.ret = Ret(1, Plot(jobs[k].image), Rows(res, ties),
                             Meta(modelMode, now - jobs[k].start), None)])
    /\ UNCHANGED <<envVars, fmtVars, uiVars, pend, afterNew>>

\* lines 72-91: the detector returns res; annotated image, rows and status text
Infer(k, res, ties) ==
    /\ jobs[k].pc = "infer"
    /\ Set(k, [jobs[k] EXCEPT
                 !.pc = "save", !.res = res, !.start = 0,
                 !.calls = Append(@, Invoke(jobs[k])),
                 !.ret = Ret(1, Plot(jobs[k].image), Rows(res, ties),
                             Meta(modelMode, now - jobs[k].start), None)])
    /\ UNCHANGED <<envVars, fmtVars, uiVars, pend, afterNew>>

\* lines 93-94: the annotated image is written under the current whole second
Save(k) ==
    /\ jobs[k].pc = "save"
    /\ saved' = Append(saved, UnixSeconds(now))
    /\ Set(k, [jobs[k] EXCEPT !.pc = "done",
                               !.ret.download = OutPath(UnixSeconds(now))])
    /\ UNCHANGED <<modelMode, weights, now, fmtVars, uiVars, pend, afterNew>>

\* lines 72-73 and 94: model(image), plot() or save() raises; the call ends
\* without a return value
Fault(k) ==
    /\ jobs[k].pc \in {"infer", "save"}
    /\ Set(k, [jobs[k] EXCEPT
                 !.pc = "faulted", !.start = 0, !.ret = NoRet,
                 !.calls = IF jobs[k].pc = "infer"
                           THEN Append(@, Invoke(jobs[k])) ELSE @])
    /\ UNCHANGED <<envVars, fmtVars, uiVars, pend, afterNew>>

\* lines 96-97: progress(1.0), return
Done(k) ==
    /\ jobs[k].pc = "done"
    /\ Set(k, [jobs[k] EXCEPT !.pc = "returned", !.log = Append(jobs[k].log, 100)])
    /\ UNCHANGED <<envVars, fmtVars, uiVars, pend, afterNew>>

\* lines 159-164: the return value reaches the page of the session that
\* clicked and is applied to outputs=[prog, out_img, detections, meta, download]
Deliver(k) ==
    /\ jobs[k].pc = "returned"
    /\ jobs' = Remove(jobs, k)
    /\ IF jobs[k].sess = 1
       THEN /\ prog' = jobs[k].ret.prog
            /\ out_img' = jobs[k].ret.out_img
            /\ detections' = jobs[k].ret.detections
            /\ meta' = jobs[k].ret.meta
            /\ download' = jobs[k].ret.download
       ELSE UNCHANGED <<prog, out_img, detections, meta, download>>
    /\ UNCHANGED <<envVars, fmtVars, tabs, inp, page, pend, afterNew>>

\* lines 159-164: the error of a faulted call reaches the page; no output changes
DeliverError(k) ==
    /\ jobs[k].pc = "faulted"
    /\ jobs' = Remove(jobs, k)
    /\ UNCHANGED <<envVars, fmtVars, uiVars, pend, afterNew>>

----------------------------------------------------------------------------
(* The environment *)

Tick ==
    /\ now < MaxTime
    /\ now' = now + 1
    /\ UNCHANGED <<modelMode, weights, saved, fmtVars, uiVars, pend, jobs, afterNew>>

\* weights/best.pt is put in place or removed while the server runs
ToggleWeights ==
    /\ weights' = ~weights
    /\ UNCHANGED <<modelMode, now, saved, fmtVars, uiVars, pend, jobs, afterNew>>

\* some running call is in time.sleep(0.2), line 69
Sleeping == \E k \in Running : jobs[k].pc = "sleep" /\ now < jobs[k].wake

\* the steps of the queue and of its calls
Server ==
    \/ \E k \in 1..Len(jobs) : Start(k)
    \/ \E k \in 1..Len(jobs) : Checkpoint(k)
    \/ \E k \in 1..Len(jobs), res \in ScanResults, ties \in [1..MaxBoxes -> BOOLEAN] :
            Infer(k, res, ties)
    \/ \E k \in 1..Len(jobs) : Save(k)
    \/ \E k \in 1..Len(jobs) : Fault(k)
    \/ \E k \in 1..Len(jobs) : Done(k)
    \/ \E k \in 1..Len(jobs) : Deliver(k)
    \/ \E k \in 1..Len(jobs) : DeliverError(k)

Next ==
    \/ \E img \in Images \cup {None} : SetImage(img)
    \/ \E t \in {"upload", "processing", "results"} : SelectTab(t)
    \/ ClickDetect
    \/ ClickNew
    \/ go_processing
    \/ go_results
    \/ go_upload
    \/ reset_all
    \/ Server
    \/ Sleeping /\ Tick

Spec == Init /\ [][Next]_vars

OtherSessions == {2, 3}

ServerNext ==
    \/ \E s \in OtherSessions, img \in Images \cup {None} : OtherDetect(s, img)
    \/ Server
    \/ Tick
    \/ ToggleWeights

ServerSpec == Init /\ [][ServerNext]_vars

\* the go_results request of a click is answered
FairSpec == Spec /\ WF_vars(go_results)

\* the queue and its call keep going, and a sleeping call sees time pass
LiveSpec == Spec /\ WF_vars(Server) /\ WF_vars(Sleeping /\ Tick)

----------------------------------------------------------------------------
(* The conversions on their own: every confidence from 0 to 1 in steps of  *)
(* 1/10000 with either rounding direction, and every detector result of up *)
(* to MaxBoxes boxes.                                                      *)

FmtInit ==
    /\ Loaded
    /\ fmtIn \in [conf : 0..ConfOne, roundUp : BOOLEAN]
    /\ fmtOut = ""
    /\ tblIn = [res |-> NoBoxes, ties |-> [k \in 1..MaxBoxes |-> FALSE]]
    /\ tblOut = [done |-> FALSE, rows |-> <<>>]

\* line 82, the second cell of a row
Format ==
    /\ fmtOut = ""
    /\ fmtOut' = FormatConf(fmtIn.conf, fmtIn.roundUp)
    /\ UNCHANGED <<envVars, uiVars, pend, jobs, afterNew, fmtIn, tblIn, tblOut>>

FmtSpec == FmtInit /\ [][Format]_vars

TableInit ==
    /\ Loaded
    /\ fmtIn = [conf |-> 0, roundUp |-> FALSE]
    /\ fmtOut = ""
    /\ tblIn \in [res : DetectorResults, ties : [1..MaxBoxes -> BOOLEAN]]
    /\ tblOut = [done |-> FALSE, rows |-> <<>>]

\* lines 76-84
Tabulate ==
    /\ ~tblOut.done
    /\ tblOut' = [done |-> TRUE, rows |-> Rows(tblIn.res, tblIn.ties)]
    /\ UNCHANGED <<envVars, uiVars, pend, jobs, afterNew, fmtIn, fmtOut, tblIn>>

TableSpec == TableInit /\ [][Tabulate]_vars

----------------------------------------------------------------------------
(* Properties of the workflow of session 1 *)

\* the click of call k was made with an image in inp
Valid(k) == jobs[k].image # None

\* the call has not ended: it waits in the queue or executes
Unfinished(k) == jobs[k].pc \in {"queued", "sleep", "infer", "save", "done"}

\* the page shows nothing: the outputs as reset_all writes them
Cleared ==
    /\ inp = None
    /\ out_img = None
    /\ detections = <<>>
    /\ meta = ""
    /\ download = None
    /\ prog = 0

\* C1: a click on "Detect Weapons" without an image returns the validation
\* message and causes no stage transition: the go_results request of such a
\* click never selects the Results tab.
C1_NoImageNoTransition ==
    \A k \in InFlight(1) :
        ~Valid(k) =>
            /\ jobs[k].pc = "returned" => jobs[k].ret.meta = ValidationMsg
            /\ jobs[k].gr # "applied"

\* C2: the Results tab is selected for a scan only once its detection
\* procedure has completed: the go_results request of a click has never been
\* applied while the call of the same click still waits or executes.
C2_ResultsOnlyAfterDetection ==
    \A k \in InFlight(1) : (Valid(k) /\ jobs[k].gr = "applied") => ~Unfinished(k)

\* C3: once both answers to "New Scan" have been applied, the page is on the
\* Upload tab and cleared, and stays so until the next user action.
C3_ResetClearsAndStays ==
    (afterNew /\ pend \cap {"reset_all", "go_upload"} = {})
        => (tabs = "upload" /\ Cleared)

\* C5: no partial results: when the detector or the file write faults, the
\* Results tab is never selected for that scan.
C5_NoResultsAfterFault ==
    \A k \in InFlight(1) : jobs[k].pc = "faulted" => jobs[k].gr # "applied"

\* the last tick at which a call can start and still see its sleeps end
Horizon == MaxTime - Len(Checkpoints) * SleepTicks

\* a call of session 1 with an image executes
Started ==
    \E k \in InFlight(1) :
        Valid(k) /\ jobs[k].pc = "sleep" /\ jobs[k].start <= Horizon

\* no step takes an unfinished call with an image out of the queue, and the
\* step that takes a returned one out puts its return value on the page
NoCancel ==
    \A k \in InFlight(1) :
        /\ (Valid(k) /\ Unfinished(k)) =>
              \E j \in 1..Len(jobs') :
                  /\ jobs'[j].sess = 1
                  /\ jobs'[j].image = jobs[k].image
                  /\ jobs'[j].pc # "queued" \/ jobs[k].pc = "queued"
        /\ (Valid(k) /\ jobs[k].pc = "returned"
                /\ \A j \in 1..Len(jobs') : jobs'[j].sess # 1) =>
              /\ out_img' = jobs[k].ret.out_img /\ out_img' # None
              /\ detections' = jobs[k].ret.detections /\ detections' # <<>>
              /\ meta' = jobs[k].ret.meta /\ meta' # ""
              /\ download' = jobs[k].ret.download /\ download' # None

\* C11: cancellation is not supported: no user action (New Scan, a further
\* click on Detect Weapons, a tab change) stops a detection procedure that has
\* started with an image; it ends, either delivering its image, table,
\* status and download link to the page or faulting.
C11_RunsToCompletion ==
    /\ [][NoCancel]_vars
    /\ (Started ~> InFlight(1) = {})

\* "New Scan" was clicked while the call was executing, and the call's
\* result is on the page all the same
C11_DeliveredAfterNewScan ==
    /\ afterNew
    /\ pend = {}
    /\ InFlight(1) = {}
    /\ out_img # None
    /\ download # None

----------------------------------------------------------------------------
(* Properties of the calls of _run_detection and of the output directory *)

AllCheckpoints == <<5, 15, 35, 55, 75, 90, 100>>

IsPrefix(s, t) == Len(s) <= Len(t) /\ \A n \in 1..Len(s) : s[n] = t[n]

\* C4: every save writes a new file: no two saves, of whatever scans, were
\* made under the same whole-second timestamp, and the link a finished scan
\* returns names a file that a save wrote.
C4_UniqueFileNames ==
    /\ \A m, n \in 1..Len(saved) : m # n => saved[m] # saved[n]
    /\ \A k \in 1..Len(jobs) :
          (Valid(k) /\ jobs[k].pc \in {"done", "returned"})
              => \E n \in 1..Len(saved) : jobs[k].ret.download = OutPath(saved[n])

C4_TwoScansSaved == Len(saved) >= 2

\* C7: the progress notifications of a call with an image are the checkpoints
\* 5, 15, 35, 55, 75, 90, 100 in this order, each once; a call that completes
\* has emitted all of them, and 100 is emitted only after the detector has
\* returned and the file has been written.
C7_ProgressInOrder ==
    \A k \in InFlight(1) :
        /\ IsPrefix(jobs[k].log, AllCheckpoints)
        /\ (Valid(k) /\ jobs[k].pc = "returned") => jobs[k].log = AllCheckpoints
        /\ (jobs[k].log # <<>> /\ jobs[k].log[Len(jobs[k].log)] = 100)
              => /\ Len(jobs[k].ret.detections) >= 1
                 /\ jobs[k].ret.download # None
                 /\ saved # <<>>

C7_CompletedCall ==
    \E k \in InFlight(1) : Valid(k) /\ jobs[k].pc = "returned"

\* C8: at most one detection procedure executes at any time, and a session
\* has at most one call waiting or executing: a click made while the
\* session's earlier call is in flight starts nothing.
C8_OneScanAtATime ==
    /\ Cardinality(Running) <= 1
    /\ \A s \in OtherSessions \cup {1} : Cardinality(InFlight(s)) <= 1

C8_OneRunsOneWaits ==
    \E k, j \in 1..Len(jobs) : k \in Running /\ jobs[j].pc = "queued" /\ Valid(j)

\* the rows of call k against the boxes the detector gave it
RowsMatch(k) ==
    LET b == jobs[k].res.boxes
        rows == jobs[k].ret.detections
    IN  /\ Len(rows) = Len(b)
        /\ \A n \in 1..Len(b) :
              /\ rows[n][1] = Label(b[n][1])
              /\ \E up \in BOOLEAN : rows[n][2] = FormatConf(b[n][2], up)
        /\ b = << <<0, 9100>>, <<1, 7700>> >>
              => rows = << <<"knife", "91.0%">>, <<"gun", "77.0%">> >>

HasObjects(k) ==
    /\ Valid(k)
    /\ jobs[k].pc \in {"save", "done", "returned"}
    /\ Len(jobs[k].res.boxes) >= 1

Clicked == \E k \in InFlight(1) : Valid(k) /\ jobs[k].gr = "pending"

\* C9: for a detector output of n >= 1 objects the table has n rows, row k
\* holding the label and the confidence string of object k, in the order of
\* the detector's output; knife at 0.91 and gun at 0.77 give
\* ["knife","91.0%"], ["gun","77.0%"]; and the click's go_results request
\* leads to the Results tab being selected.
C9_RowsInDetectorOrder ==
    /\ [](\A k \in InFlight(1) : HasObjects(k) => RowsMatch(k))
    /\ (Clicked ~> tabs = "results")

C9_TwoObjectsShown ==
    /\ tabs = "results"
    /\ detections = << <<"knife", "91.0%">>, <<"gun", "77.0%">> >>

----------------------------------------------------------------------------
(* Properties of the conversions *)

\* C6: the table of a successful call has at least one row; it is the single
\* sentinel row exactly when the detector reports no object (boxes None or
\* empty), and otherwise holds no sentinel row.
C6_TableNeverEmpty ==
    tblOut.done =>
        LET zero == tblIn.res.none \/ tblIn.res.boxes = <<>>
        IN  /\ Len(tblOut.rows) >= 1
            /\ (tblOut.rows = <<SentinelRow>>) <=> zero
            /\ ~zero => \A n \in 1..Len(tblOut.rows) : tblOut.rows[n] # SentinelRow

C6_EmptyListGivesSentinel ==
    /\ tblOut.done
    /\ ~tblIn.res.none
    /\ tblIn.res.boxes = <<>>
    /\ tblOut.rows = <<SentinelRow>>

\* C10: the confidence string of a value in [0,1] is the value times 100,
\* rounded to the nearest tenth t/10, written with exactly one digit after
\* the point and followed by "%"; it lies between "0.0%" and "100.0%", and
\* 0.873 gives "87.3%".
C10_OneDecimalPercent ==
    fmtOut # "" =>
        /\ \E t \in 0..(ConfOne \div 10) :
              /\ 10 * t - fmtIn.conf \in -5..5
              /\ fmtOut = Str(t \div 10) \o "." \o Digit(t % 10) \o "%"
        /\ fmtIn.conf = 8730 => fmtOut = "87.3%"

C10_Example == fmtIn.conf = 8730 /\ fmtOut = "87.3%"

----------------------------------------------------------------------------
(* Properties of a call of _run_detection without an image *)

\* the return value of a call without an image is applied to the page
ValidationDelivered ==
    \E k \in InFlight(1) :
        ~Valid(k) /\ jobs[k].pc = "returned" /\ InFlight(1)' = {}

\* C12: a call of the detection procedure without an image leaves the session
\* as it was apart from the validation message: the annotated image, table
\* and download link of an earlier scan stay on the page unchanged.
C12_NoImageKeepsResult ==
    [][ValidationDelivered =>
          /\ out_img' = out_img
          /\ detections' = detections
          /\ download' = download]_vars

----------------------------------------------------------------------------
(* Properties of the detector's invocations *)

Last(q) == q[Len(q)]

InSeq(x, q) == \E n \in 1..Len(q) : q[n] = x

\* C13: every call of the detection procedure with an image invokes the
\* detector exactly once, on the image it was given, after the 90% progress
\* checkpoint and before the 100% one; a call without an image, and no other
\* operation, invokes it.
C13_DetectorOncePerCall ==
    \A k \in 1..Len(jobs) :
        LET job == jobs[k] IN
        /\ Len(job.calls) <= 1
        /\ ~Valid(k) => job.calls = <<>>
        /\ job.calls # <<>> =>
              /\ job.calls[1].image = job.image
              /\ job.calls[1].after # <<>>
              /\ Last(job.calls[1].after) = 90
        /\ InSeq(100, job.log) => Len(job.calls) = 1
        /\ ~InSeq(90, job.log) => job.calls = <<>>
        /\ (Valid(k) /\ job.pc \in {"returned", "faulted"}) => Len(job.calls) = 1

\* the second scan of the session has returned, its detector invoked once
C13_CallsCompleted ==
    \E k \in InFlight(1) :
        /\ Valid(k)
        /\ jobs[k].pc = "returned"
        /\ Len(jobs[k].calls) = 1
        /\ Len(saved) >= 2

----------------------------------------------------------------------------
(* Properties of the labels of the table *)

\* C14: the label of a row is the label table's entry for the box's class id
\* when the table has one, and the class id written in decimal when it has
\* none; it is never empty or missing.
C14_LabelOrClassId ==
    (tblOut.done /\ ~tblIn.res.none /\ tblIn.res.boxes # <<>>) =>
        \A n \in 1..Len(tblIn.res.boxes) :
            LET cls == tblIn.res.boxes[n][1]
                lab == tblOut.rows[n][1]
            IN  /\ lab # ""
                /\ lab # None
                /\ cls \in DOMAIN Names => lab = Names[cls]
                /\ cls \notin DOMAIN Names => lab = Str(cls)
                /\ cls = 0 => lab = "knife"
                /\ cls = 1 => lab = "gun"
                /\ cls = 7 => lab = "7"
                /\ cls = 12 => lab = "12"

\* a box of the mapped class 0 and one of the unmapped class 12 in one table
C14_MappedAndUnmapped ==
    /\ tblOut.done
    /\ ~tblIn.res.none
    /\ Len(tblIn.res.boxes) = 2
    /\ tblIn.res.boxes[1][1] = 0
    /\ tblIn.res.boxes[2][1] = 12
    /\ tblOut.rows[1][1] = "knife"
    /\ tblOut.rows[2][1] = "12"

----------------------------------------------------------------------------
(* Properties of the model source notice *)

\* the call has its status text: detection succeeded
Scanned(k) == Valid(k) /\ jobs[k].pc \in {"save", "done", "returned"}

\* the least time a scan takes: its sleeps
LeastTicks == Len(Checkpoints) * SleepTicks

\* the status text of call k: notice, elapsed time with two decimals, disclaimer
StatusOf(k, notice) ==
    \E e \in LeastTicks..MaxTime :
        \E whole \in 0..(MaxTime \div TicksPerSecond), d1, d2 \in 0..9 :
            /\ 100 * e = TicksPerSecond * (100 * whole + 10 * d1 + d2)
            /\ jobs[k].ret.meta =
                  notice \o "\n" \o "Processed in " \o Str(whole) \o "."
                         \o Digit(d1) \o Digit(d2) \o "s\n" \o Privacy

\* C15: the model source is decided once, at startup (the local weights when
\* the file is there, else the fallback), and never changes; the status text
\* of every completed scan is that startup notice, then the elapsed time,
\* then the privacy disclaimer, also when the weights file appears or
\* disappears while the server runs.
C15_StartupNoticeInStatus ==
    /\ [](modelMode \in {LocalMode, DemoMode})
    /\ [][modelMode' = modelMode]_vars
    /\ [](\A k \in 1..Len(jobs) : Scanned(k) => StatusOf(k, modelMode))

\* a scan completed with the local model's notice after the weights file
\* was removed
C15_ScanAfterWeightsRemoved ==
    \E k \in 1..Len(jobs) :
        /\ Scanned(k)
        /\ jobs[k].pc = "returned"
        /\ modelMode = LocalMode
        /\ ~weights
        /\ jobs[k].ret.meta = Meta(LocalMode, LeastTicks + 1)

----------------------------------------------------------------------------
(* Properties of the work done by a call without an image *)

\* C16: a call of the detection procedure without an image returns before
\* any work: it reports no progress, does not invoke the detector, writes no
\* file (the output directory stays as it is) and returns progress value 0.
C16_NoImageNoWork ==
    /\ [](\A k \in 1..Len(jobs) :
            ~Valid(k) =>
                /\ jobs[k].pc \in {"queued", "returned"}
                /\ jobs[k].log = <<>>
                /\ jobs[k].calls = <<>>
                /\ jobs[k].ret.download = None
                /\ jobs[k].pc = "returned" => jobs[k].ret.prog = 0)
    /\ [][(\E k \in InFlight(1) : ~Valid(k)) => saved' = saved]_vars

\* a call without an image has returned after an earlier scan wrote its file
C16_ReturnedAfterScan ==
    \E k \in InFlight(1) :
        /\ ~Valid(k)
        /\ jobs[k].pc = "returned"
        /\ jobs[k].ret.prog = 0
        /\ Len(saved) = 1

----------------------------------------------------------------------------
(* Properties of the page as a whole *)

\* what the Results tab shows
Shown == <<out_img, detections, meta, download>>

ResetOutputs == <<None, <<>>, "", None>>

ValidationOutputs == <<None, <<>>, ValidationMsg, None>>

\* the four outputs of a completed scan
ScanOutputs ==
    /\ out_img # None
    /\ detections # <<>>
    /\ meta \notin {"", ValidationMsg}
    /\ download # None

\* a step that changes what is shown puts there the four outputs of one
\* operation: those of reset_all or the return value of one call
OneOperationShown ==
    Shown' # Shown =>
        \/ "reset_all" \in pend /\ Shown' = ResetOutputs
        \/ \E k \in InFlight(1) :
               /\ jobs[k].pc = "returned"
               /\ Shown' = <<jobs[k].ret.out_img, jobs[k].ret.detections,
                             jobs[k].ret.meta, jobs[k].ret.download>>

\* C17: the annotated image, the table, the status text and the download link
\* on the page were always delivered together by one operation (a completed
\* call with an image, a call without an image, or a reset); no state shows
\* outputs of two different operations side by side.
C17_ShownByOneOperation ==
    /\ [](Shown = ResetOutputs \/ Shown = ValidationOutputs \/ ScanOutputs)
    /\ [][OneOperationShown]_vars

\* the result of the session's second scan is shown, after a reset
C17_SecondScanShown ==
    /\ ScanOutputs
    /\ InFlight(1) = {}
    /\ Len(saved) = 2
    /\ download = OutPath(saved[2])
    /\ afterNew

\* C18: the session variable page holds "upload" in every reachable state:
\* the only operation that writes it is reset_all, which writes "upload".
C18_PageAlwaysUpload == page = "upload"

\* the Results tab is selected and a scan's result shown, page still "upload"
C18_ResultsTabPageUpload ==
    /\ tabs = "results"
    /\ out_img # None
    /\ page = "upload"

====
